---- MODULE Spec2Model ----
(***************************************************************************)
(* Cascading selector controller of static/admin/js/filtro_carpetas.js:    *)
(* the dependent <select id="id_carpeta"> is filtered by the parent        *)
(* <select id="id_numeral"> through an asynchronous request.               *)
(*                                                                         *)
(* The state is the part of the page the script reads and writes (the two  *)
(* controls), the requests in flight and the console.  One action per      *)
(* handler: the document.ready handler, the change handler                 *)
(* (filtrarCarpetas), the success and error callbacks of $.ajax, and the   *)
(* user's choice of a dependent option.                                    *)
(*                                                                         *)
(* Every line of the file, as shipped, is behind a // comment mark: the     *)
(* browser loads the file and executes nothing, no handler is ever bound.  *)
(* scriptEnabled tells the two builds apart: FALSE is the file as shipped, *)
(* TRUE is the script those lines hold, with the marks removed.  The       *)
(* handlers below are that script's; they run only when scriptEnabled.     *)
(***************************************************************************)
EXTENDS Integers, Sequences, FiniteSets

\* ---------------------------------------------------------------- bounds
\* at most this many requests are issued in one run
MaxFetches == 3
\* a response carries at most this many carpeta records
MaxCarpetas == 2

\* ------------------------------------------------------------ value sets
\* values of the options of #id_numeral; "" is the empty choice
NumeralValues == {"", "5", "7"}

\* the records the endpoint can return in data.carpetas
Carpetas ==
    { [id |-> 1, ruta_completa |-> "/a"],
      [id |-> 2, ruta_completa |-> "/a/b"] }

RECURSIVE SeqsUpTo(_, _)
SeqsUpTo(S, n) ==
    IF n = 0 THEN {<<>>}
    ELSE LET shorter == SeqsUpTo(S, n - 1)
         IN  shorter \cup {Append(s, x) : s \in {t \in shorter : Len(t) = n - 1}, x \in S}

\* the payloads data.carpetas of a successful response
Responses == SeqsUpTo(Carpetas, MaxCarpetas)

\* window.location.pathname, already split at "/"
Pathnames ==
    { <<"", "admin", "transparencia", "documento", "add", "">>,
      <<"", "admin">> }

\* the value JavaScript calls undefined (a missing attribute, a missing
\* array element)
Undefined == "<undefined>"

\* no request has populated the options
NotFetched == "<none>"

\* no response has been received yet
NoResponse == <<[id |-> 0, ruta_completa |-> "<none>"]>>

\* --------------------------------------------------------- pure functions
\* JavaScript truthiness of a string-or-undefined value: if (x), if (!x)
Truthy(x) == x # "" /\ x # Undefined

Digit(d) ==
    CASE d = 0 -> "0" [] d = 1 -> "1" [] d = 2 -> "2" [] d = 3 -> "3"
      [] d = 4 -> "4" [] d = 5 -> "5" [] d = 6 -> "6" [] d = 7 -> "7"
      [] d = 8 -> "8" [] d = 9 -> "9"

\* .attr('value', carpeta.id): the number becomes its decimal string
RECURSIVE NumberToString(_)
NumberToString(n) == IF n < 10 THEN Digit(n) ELSE NumberToString(n \div 10) \o Digit(n % 10)

\* '<option value="">---------</option>'
Placeholder == [value |-> "", text |-> "---------"]

\* $('<option></option>').attr('value', carpeta.id).text(carpeta.ruta_completa)
OptionOf(carpeta) == [value |-> NumberToString(carpeta.id), text |-> carpeta.ruta_completa]

\* variant: every record is put in front of the earlier ones (prepend for
\* append), so the server's order is reversed
Repopulated_Prepends(carpetas) ==
    <<Placeholder>> \o [i \in 1..Len(carpetas) |->
                          OptionOf(carpetas[Len(carpetas) + 1 - i])]

\* variant: the control is emptied with html('') before the records are
\* appended, the placeholder is lost
Repopulated_NoPlaceholder(carpetas) ==
    [i \in 1..Len(carpetas) |-> OptionOf(carpetas[i])]

\* html(placeholder) followed by $.each(data.carpetas, append)
Repopulated(carpetas) ==
    <<Placeholder>> \o [i \in 1..Len(carpetas) |-> OptionOf(carpetas[i])]

\* variant: the recorded value is not written back, the placeholder stays
\* selected
IndexOfValue_NotRestored(opts, v) == 1

\* carpetaField.val(v) on a single select: the first option whose value is
\* v becomes the selected one; with no such option nothing is selected (0)
IndexOfValue(opts, v) ==
    IF \E i \in 1..Len(opts) : opts[i].value = v
    THEN CHOOSE i \in 1..Len(opts) :
            /\ opts[i].value = v
            /\ \A j \in 1..(i - 1) : opts[j].value # v
    ELSE 0

\* window.location.pathname.split('/')[2]
AppOf(path) == IF Len(path) >= 3 THEN path[3] ELSE Undefined

\* ------------------------------------------------------------------ state
VARIABLES
    scriptEnabled,   \* the lines of the file are code (FALSE as shipped: all
                     \* of them are // comments)
    numeralPresent,  \* numeralField.length # 0
    carpetaPresent,  \* carpetaField.length # 0
    numeralVal,      \* numeralField.val()
    options,         \* the <option>s of carpetaField, in order
    selectedIndex,   \* index of the selected option, 0 when none
    disabled,        \* carpetaField.prop('disabled')
    dataSelected,    \* carpetaField.attr('data-selected')
    pathname,        \* window.location.pathname, split at "/"
    ready,           \* the document.ready handler has run
    inflight,        \* requests issued and not yet answered
    issued,          \* number of requests issued so far
    console,         \* number of console.error reports
    fetchedFor,      \* numeral_id of the request whose response filled options
    lastSuccess,     \* data.carpetas of the latest successful response
    shownBefore,     \* history, kept under SpecTracked only: the request sent
                     \* by the latest handled change to a non-empty value and
                     \* the options shown before that change, until the
                     \* request resolves or the parent is emptied
    last             \* the handler that ran last: its kind, the request it
                     \* answers (id, numeral_id) and the payload it received

vars == <<scriptEnabled, numeralPresent, carpetaPresent, numeralVal, options, selectedIndex,
          disabled, dataSelected, pathname, ready, inflight, issued, console,
          fetchedFor, lastSuccess, shownBefore, last>>

\* no request of a handled change is in flight
NoChangePending == [id |-> 0, options |-> <<>>]

page == <<scriptEnabled, numeralPresent, carpetaPresent, dataSelected, pathname>>

\* the options the server rendered into #id_carpeta
RenderedOptions ==
    { <<Placeholder>>,
      <<Placeholder, OptionOf([id |-> 1, ruta_completa |-> "/a"])>>,
      <<OptionOf([id |-> 2, ruta_completa |-> "/a/b"])>> }

Init ==
    /\ scriptEnabled \in BOOLEAN
    /\ numeralPresent \in BOOLEAN
    /\ carpetaPresent \in BOOLEAN
    /\ numeralVal \in NumeralValues
    /\ options \in RenderedOptions
    /\ selectedIndex \in 1..Len(options)
    /\ disabled = FALSE
    /\ dataSelected \in {Undefined, "", "1", "2"}
    /\ pathname \in Pathnames
    /\ ready = FALSE
    /\ inflight = {}
    /\ issued = 0
    /\ console = 0
    /\ fetchedFor = NotFetched
    /\ lastSuccess = NoResponse
    /\ shownBefore = NoChangePending
    /\ last = [op |-> "none", id |-> 0, numeral_id |-> "", carpetas |-> <<>>]

\* numeralField.on('change', filtrarCarpetas) has been executed: never in the
\* file as shipped, where that line is a comment
HandlerBound == scriptEnabled /\ ready /\ numeralPresent /\ carpetaPresent

\* variant: the request reads the value the control held before the event
Request_OldValue(numeralSeleccionado) ==
    [id |-> issued + 1,
     url |-> "/admin/get-carpetas-por-numeral/",
     numeral_id |-> numeralVal,
     app |-> AppOf(pathname)]

\* the request $.ajax sends: url, data.numeral_id, data.app
Request(numeralSeleccionado) ==
    [id |-> issued + 1,
     url |-> "/admin/get-carpetas-por-numeral/",
     numeral_id |-> numeralSeleccionado,
     app |-> AppOf(pathname)]

\* variant: the empty branch forgets carpetaField.prop('disabled', true)
filtrarCarpetas_StaysEnabled(numeralSeleccionado) ==
    IF ~Truthy(numeralSeleccionado)
    THEN /\ options' = <<Placeholder>>
         /\ selectedIndex' = 1
         /\ fetchedFor' = NotFetched
         /\ UNCHANGED <<disabled, inflight, issued>>
    ELSE /\ issued < MaxFetches
         /\ disabled' = FALSE
         /\ inflight' = inflight \cup {Request(numeralSeleccionado)}
         /\ issued' = issued + 1
         /\ UNCHANGED <<options, selectedIndex, fetchedFor>>

\* variant: the empty branch forgets to reset the options
filtrarCarpetas_KeepsOptions(numeralSeleccionado) ==
    IF ~Truthy(numeralSeleccionado)
    THEN /\ disabled' = TRUE
         /\ UNCHANGED <<options, selectedIndex, fetchedFor, inflight, issued>>
    ELSE /\ issued < MaxFetches
         /\ disabled' = FALSE
         /\ inflight' = inflight \cup {Request(numeralSeleccionado)}
         /\ issued' = issued + 1
         /\ UNCHANGED <<options, selectedIndex, fetchedFor>>

\* function filtrarCarpetas(), with numeralSeleccionado = numeralField.val()
filtrarCarpetas(numeralSeleccionado) ==
    IF ~Truthy(numeralSeleccionado)
    THEN /\ options' = <<Placeholder>>
         /\ selectedIndex' = 1
         /\ disabled' = TRUE
         /\ fetchedFor' = NotFetched
         /\ UNCHANGED <<inflight, issued>>
    ELSE /\ issued < MaxFetches
         /\ disabled' = FALSE
         /\ inflight' = inflight \cup {Request(numeralSeleccionado)}
         /\ issued' = issued + 1
         /\ UNCHANGED <<options, selectedIndex, fetchedFor>>

\* variant: the page-load branch never calls filtrarCarpetas (no fetch in
\* edit mode)
Ready_NoEditMode ==
    /\ ~ready
    /\ ready' = TRUE
    /\ IF scriptEnabled /\ numeralPresent /\ carpetaPresent
       THEN /\ disabled' = ~Truthy(numeralVal)
            /\ UNCHANGED <<options, selectedIndex, fetchedFor, inflight, issued>>
       ELSE UNCHANGED <<options, selectedIndex, disabled, fetchedFor, inflight, issued>>
    /\ last' = [op |-> "ready", id |-> 0, numeral_id |-> numeralVal, carpetas |-> <<>>]
    /\ UNCHANGED <<page, numeralVal, console, lastSuccess>>

\* variant: the test numeralField.length && carpetaField.length is missing
Ready_NoPresenceCheck ==
    /\ ~ready
    /\ ready' = TRUE
    /\ IF scriptEnabled
       THEN IF Truthy(numeralVal)
            THEN filtrarCarpetas(numeralVal)
            ELSE /\ disabled' = TRUE
                 /\ UNCHANGED <<options, selectedIndex, fetchedFor, inflight, issued>>
       ELSE UNCHANGED <<options, selectedIndex, disabled, fetchedFor, inflight, issued>>
    /\ last' = [op |-> "ready", id |-> 0, numeral_id |-> numeralVal, carpetas |-> <<>>]
    /\ UNCHANGED <<page, numeralVal, console, lastSuccess>>

\* the document becomes ready.  As shipped nothing is registered for that
\* event and nothing happens; with the script enabled the function given to
\* $(document).ready(function () { ... }) runs
Ready ==
    /\ ~ready
    /\ ready' = TRUE
    /\ IF scriptEnabled /\ numeralPresent /\ carpetaPresent
       THEN IF Truthy(numeralVal)
            THEN filtrarCarpetas(numeralVal)
            ELSE /\ disabled' = TRUE
                 /\ UNCHANGED <<options, selectedIndex, fetchedFor, inflight, issued>>
       ELSE UNCHANGED <<options, selectedIndex, disabled, fetchedFor, inflight, issued>>
    /\ last' = [op |-> "ready", id |-> 0, numeral_id |-> numeralVal, carpetas |-> <<>>]
    /\ UNCHANGED <<page, numeralVal, console, lastSuccess>>

\* the user picks another option of #id_numeral: the change event fires and
\* the handler, when bound, runs with the new value
ChangeNumeral(v) ==
    /\ numeralPresent
    /\ v # numeralVal
    /\ numeralVal' = v
    /\ IF HandlerBound
       THEN /\ filtrarCarpetas(v)
            /\ last' = [op |-> "change", id |-> 0, numeral_id |-> v, carpetas |-> <<>>]
       ELSE UNCHANGED <<options, selectedIndex, disabled, fetchedFor, inflight,
                        issued, last>>
    /\ UNCHANGED <<page, ready, console, lastSuccess>>

\* a change event dispatched on #id_numeral while its value stays the same
\* (the same option chosen again through $(...).trigger('change')): the bound
\* handler runs with the value the control holds
TriggerChange ==
    /\ HandlerBound
    /\ filtrarCarpetas(numeralVal)
    /\ last' = [op |-> "change", id |-> 0, numeral_id |-> numeralVal, carpetas |-> <<>>]
    /\ UNCHANGED <<page, numeralVal, ready, console, lastSuccess>>

\* variant: the success callback also enables the control it has filled
Success_Enables(r, carpetas) ==
    /\ r \in inflight
    /\ inflight' = inflight \ {r}
    /\ options' = Repopulated(carpetas)
    /\ selectedIndex' = IF Truthy(dataSelected)
                        THEN IndexOfValue(options', dataSelected)
                        ELSE 1
    /\ disabled' = FALSE
    /\ fetchedFor' = r.numeral_id
    /\ lastSuccess' = carpetas
    /\ last' = [op |-> "success", id |-> r.id, numeral_id |-> r.numeral_id,
                carpetas |-> carpetas]
    /\ UNCHANGED <<page, numeralVal, ready, issued, console>>

\* variant: the html(placeholder) call that empties the control is missing,
\* the new options are appended to those already shown
Success_Appends(r, carpetas) ==
    /\ r \in inflight
    /\ inflight' = inflight \ {r}
    /\ options' = options \o [i \in 1..Len(carpetas) |-> OptionOf(carpetas[i])]
    /\ selectedIndex' = IF Truthy(dataSelected)
                        THEN IndexOfValue(options', dataSelected)
                        ELSE selectedIndex
    /\ fetchedFor' = r.numeral_id
    /\ lastSuccess' = carpetas
    /\ last' = [op |-> "success", id |-> r.id, numeral_id |-> r.numeral_id,
                carpetas |-> carpetas]
    /\ UNCHANGED <<page, numeralVal, disabled, ready, issued, console>>

\* variant: the response of a request that is not the latest one issued is
\* dropped (the latest request wins, not the last response)
Success_LatestRequestWins(r, carpetas) ==
    /\ r \in inflight
    /\ inflight' = inflight \ {r}
    /\ IF r.id = issued
       THEN /\ options' = Repopulated(carpetas)
            /\ selectedIndex' = IF Truthy(dataSelected)
                                THEN IndexOfValue(options', dataSelected)
                                ELSE 1
            /\ fetchedFor' = r.numeral_id
       ELSE UNCHANGED <<options, selectedIndex, fetchedFor>>
    /\ lastSuccess' = carpetas
    /\ last' = [op |-> "success", id |-> r.id, numeral_id |-> r.numeral_id,
                carpetas |-> carpetas]
    /\ UNCHANGED <<page, numeralVal, disabled, ready, issued, console>>

\* variant: the recorded value is used once: the success callback removes
\* data-selected after it has restored the selection
Success_ConsumesRecorded(r, carpetas) ==
    /\ r \in inflight
    /\ inflight' = inflight \ {r}
    /\ options' = Repopulated(carpetas)
    /\ selectedIndex' = IF Truthy(dataSelected)
                        THEN IndexOfValue(options', dataSelected)
                        ELSE 1
    /\ dataSelected' = Undefined
    /\ fetchedFor' = r.numeral_id
    /\ lastSuccess' = carpetas
    /\ last' = [op |-> "success", id |-> r.id, numeral_id |-> r.numeral_id,
                carpetas |-> carpetas]
    /\ UNCHANGED <<scriptEnabled, numeralPresent, carpetaPresent, pathname, numeralVal,
                   disabled, ready, issued, console>>

\* success: function (data) { ... } of the request r, data.carpetas = carpetas
Success(r, carpetas) ==
    /\ r \in inflight
    /\ inflight' = inflight \ {r}
    /\ options' = Repopulated(carpetas)
    /\ LET valorActual == dataSelected
       IN  selectedIndex' = IF Truthy(valorActual)
                            THEN IndexOfValue(options', valorActual)
                            ELSE 1
    /\ fetchedFor' = r.numeral_id
    /\ lastSuccess' = carpetas
    /\ last' = [op |-> "success", id |-> r.id, numeral_id |-> r.numeral_id,
                carpetas |-> carpetas]
    /\ UNCHANGED <<page, numeralVal, disabled, ready, issued, console>>

\* variant: the error callback sends the request again
Error_Retries(r) ==
    /\ r \in inflight
    /\ issued < MaxFetches
    /\ inflight' = (inflight \ {r}) \cup {Request(r.numeral_id)}
    /\ issued' = issued + 1
    /\ console' = console + 1
    /\ last' = [op |-> "error", id |-> r.id, numeral_id |-> r.numeral_id,
                carpetas |-> <<>>]
    /\ UNCHANGED <<page, numeralVal, options, selectedIndex, disabled, ready,
                   fetchedFor, lastSuccess>>

\* variant: the error callback resets the control to the placeholder
Error_ResetsOptions(r) ==
    /\ r \in inflight
    /\ inflight' = inflight \ {r}
    /\ console' = console + 1
    /\ options' = <<Placeholder>>
    /\ selectedIndex' = 1
    /\ fetchedFor' = NotFetched
    /\ last' = [op |-> "error", id |-> r.id, numeral_id |-> r.numeral_id,
                carpetas |-> <<>>]
    /\ UNCHANGED <<page, numeralVal, disabled, ready, issued, lastSuccess>>

\* error: function () { console.error(...) } of the request r
Error(r) ==
    /\ r \in inflight
    /\ inflight' = inflight \ {r}
    /\ console' = console + 1
    /\ last' = [op |-> "error", id |-> r.id, numeral_id |-> r.numeral_id,
                carpetas |-> <<>>]
    /\ UNCHANGED <<page, numeralVal, options, selectedIndex, disabled, ready,
                   issued, fetchedFor, lastSuccess>>

\* the user picks option i of #id_carpeta (an enabled control only)
SelectCarpeta(i) ==
    /\ carpetaPresent
    /\ ~disabled
    /\ i \in 1..Len(options)
    /\ i # selectedIndex
    /\ selectedIndex' = i
    /\ last' = [op |-> "select", id |-> 0, numeral_id |-> "", carpetas |-> <<>>]
    /\ UNCHANGED <<page, numeralVal, options, disabled, ready, inflight, issued,
                   console, fetchedFor, lastSuccess>>

Next ==
    \/ Ready /\ UNCHANGED shownBefore
    \/ \E v \in NumeralValues : ChangeNumeral(v) /\ UNCHANGED shownBefore
    \/ TriggerChange /\ UNCHANGED shownBefore
    \/ \E r \in inflight, carpetas \in Responses :
          Success(r, carpetas) /\ UNCHANGED shownBefore
    \/ \E r \in inflight : Error(r) /\ UNCHANGED shownBefore
    \/ \E i \in 1..(MaxCarpetas + 1) : SelectCarpeta(i) /\ UNCHANGED shownBefore

\* the history after the change handler has run with the value v: the
\* request just sent (the one numbered issued') and the options shown when
\* the handler started; nothing once the parent is empty
AfterChange(v) ==
    IF Truthy(v)
    THEN [id |-> issued', options |-> options]
    ELSE NoChangePending

\* the history once the request r has resolved
AfterResolution(r) ==
    IF r.id = shownBefore.id THEN NoChangePending ELSE shownBefore

\* the same steps, with the history of the latest handled change recorded
NextTracked ==
    \/ Ready /\ UNCHANGED shownBefore
    \/ \E v \in NumeralValues :
          /\ ChangeNumeral(v)
          /\ shownBefore' = IF HandlerBound THEN AfterChange(v) ELSE shownBefore
    \/ TriggerChange /\ shownBefore' = AfterChange(numeralVal)
    \/ \E r \in inflight, carpetas \in Responses :
          Success(r, carpetas) /\ shownBefore' = AfterResolution(r)
    \/ \E r \in inflight : Error(r) /\ shownBefore' = AfterResolution(r)
    \/ \E i \in 1..(MaxCarpetas + 1) : SelectCarpeta(i) /\ UNCHANGED shownBefore

\* the endpoint with stable data: what /admin/get-carpetas-por-numeral/
\* answers to numeral_id and app, the same at every request
ServerData(numeral_id, app) ==
    IF app = "transparencia"
    THEN IF numeral_id = "5"
         THEN <<[id |-> 1, ruta_completa |-> "/a"], [id |-> 2, ruta_completa |-> "/a/b"]>>
         ELSE <<[id |-> 2, ruta_completa |-> "/a/b"]>>
    ELSE IF numeral_id = "5"
         THEN <<>>
         ELSE <<[id |-> 2, ruta_completa |-> "/a/b"], [id |-> 1, ruta_completa |-> "/a"]>>

\* the success callback of r when the endpoint answers with its stable data
SuccessStable(r) == Success(r, ServerData(r.numeral_id, r.app))

NextStable ==
    \/ Ready /\ UNCHANGED shownBefore
    \/ \E v \in NumeralValues : ChangeNumeral(v) /\ UNCHANGED shownBefore
    \/ TriggerChange /\ UNCHANGED shownBefore
    \/ \E r \in inflight : SuccessStable(r) /\ UNCHANGED shownBefore
    \/ \E r \in inflight : Error(r) /\ UNCHANGED shownBefore
    \/ \E i \in 1..(MaxCarpetas + 1) : SelectCarpeta(i) /\ UNCHANGED shownBefore

Spec == Init /\ [][Next]_vars

\* the controller with an endpoint whose data is stable
SpecStable == Init /\ [][NextStable]_vars

\* the controller, with the history of the latest handled change
SpecTracked == Init /\ [][NextTracked]_vars

\* the file as shipped: no step binds a handler, issues a request, writes to
\* the console or touches the dependent control's options or enabled flag
ShippedFileInert ==
    [][~scriptEnabled
          => /\ ~HandlerBound'
             /\ UNCHANGED <<options, disabled, inflight, issued, console,
                            fetchedFor, lastSuccess>>]_vars

\* ------------------------------------------------------------- the claims
\* the controller is initialised: both controls exist and the ready handler
\* has run
Initialised == HandlerBound

\* a step in which the bound change handler runs with the new value
ChangeHandled == HandlerBound /\ last'.op = "change" /\ vars' # vars

\* C1: after initialisation, whatever change events, successes and failures
\* have been handled, the dependent selector is enabled if and only if the
\* parent selector holds a non-empty value.
C1_EnabledIffParentNonEmpty ==
    Initialised => (~disabled <=> numeralVal # "")

\* C1 witness: a late response has been handled while the parent is empty
\* and the selector is disabled.
C1_Witness ==
    /\ Initialised
    /\ last.op = "success"
    /\ numeralVal = ""
    /\ disabled
    /\ console > 0

\* C2: whenever the dependent selector holds fetched data (options other
\* than the placeholder that a response put there), the data was fetched for
\* the parent value that is selected now.
C2_NoStaleData ==
    (fetchedFor # NotFetched /\ Len(options) > 1) => fetchedFor = numeralVal

\* C3: when the parent has gone from a non-empty value to the empty one and
\* the response of the earlier fetch is then handled, the selector is
\* disabled and holds the placeholder only.
C3_LateResponseIgnored ==
    (Initialised /\ last.op = "success" /\ numeralVal = "")
        => (disabled /\ options = <<Placeholder>>)

\* C4: when the fetch of the latest parent change fails and the parent has
\* not changed since, the selector is enabled and holds the placeholder only.
C4_FailureLeavesPlaceholderOnly ==
    (last.op = "error" /\ last.id = issued /\ last.numeral_id = numeralVal)
        => (~disabled /\ options = <<Placeholder>>)

\* C5: after initialisation, whenever the parent value is empty the selector
\* is disabled and its options are exactly the placeholder.
C5_EmptyParentPlaceholderOnly ==
    (Initialised /\ numeralVal = "")
        => (disabled /\ options = <<Placeholder>>)

\* C6: handling a change to the empty value sets the options to the single
\* placeholder, disables the selector and issues no fetch: the requests in
\* flight and the number of requests issued are unchanged.
C6_ChangeToEmpty ==
    [][(ChangeHandled /\ numeralVal' = "")
         => (/\ options' = <<Placeholder>>
             /\ disabled'
             /\ inflight' = inflight
             /\ issued' = issued)]_vars

\* C6 witness: a change to the empty value has been handled while a request
\* was in flight.
C6_Witness ==
    /\ last.op = "change"
    /\ last.numeral_id = ""
    /\ inflight # {}
    /\ options = <<Placeholder>>
    /\ disabled

\* C7: handling a change to a non-empty value v enables the selector and
\* issues exactly one request, for v: in the state the handler leaves, the
\* selector is enabled and the set in flight has grown by one request whose
\* numeral_id is the new value.
C7_ChangeToNonEmpty ==
    [][(ChangeHandled /\ numeralVal' # "")
         => (/\ ~disabled'
             /\ issued' = issued + 1
             /\ \E r \in inflight' :
                    /\ r \notin inflight
                    /\ inflight' = inflight \cup {r}
                    /\ r.numeral_id = numeralVal')]_vars

\* C7 witness: a change to "7" has been handled while the request for "5"
\* was still in flight; both are in flight with their own value.
C7_Witness ==
    /\ last.op = "change"
    /\ last.numeral_id = "7"
    /\ ~disabled
    /\ \E r \in inflight : r.numeral_id = "5"
    /\ \E r \in inflight : r.id = issued /\ r.numeral_id = "7"

\* C8: once a response with N records has been handled, the options are the
\* placeholder followed by one option per record, in the server's order,
\* with the record's id as value and its full path as label: N + 1 options
\* and none of the earlier ones; with the parent still at the requested
\* value the selector is enabled.
C8_SuccessReplacesOptions ==
    last.op = "success" =>
        /\ Len(options) = Len(last.carpetas) + 1
        /\ options[1] = Placeholder
        /\ \A i \in 1..Len(last.carpetas) :
              /\ options[i + 1].value = NumberToString(last.carpetas[i].id)
              /\ options[i + 1].text = last.carpetas[i].ruta_completa
        /\ (numeralVal = last.numeral_id => ~disabled)

\* C8 witness: a response with two different records has been handled for
\* the parent value still selected.
C8_Witness ==
    /\ last.op = "success"
    /\ Len(last.carpetas) = 2
    /\ last.carpetas[1] # last.carpetas[2]
    /\ numeralVal = last.numeral_id

\* the recorded value is among the ids the response carries
RecordedReturned ==
    \E i \in 1..Len(last.carpetas) :
        NumberToString(last.carpetas[i].id) = dataSelected

\* C9: once a response has been handled, a recorded data-selected value that
\* is the id of a returned record is the selected value; with no recorded
\* value the placeholder is selected.
C9_SelectionRestored ==
    last.op = "success" =>
        /\ (dataSelected \notin {"", Undefined} /\ RecordedReturned)
              => (/\ selectedIndex \in 1..Len(options)
                  /\ options[selectedIndex].value = dataSelected)
        /\ dataSelected \in {"", Undefined}
              => (selectedIndex = 1 /\ options[1] = Placeholder)

\* C9 witness: the recorded value "2" was returned as the second record.
C9_Witness ==
    /\ last.op = "success"
    /\ dataSelected = "2"
    /\ Len(last.carpetas) = 2
    /\ last.carpetas[2].id = 2
    /\ selectedIndex = 3

\* C10: the page-load step with both controls present: a non-empty parent
\* value gives what a change to that value gives (selector enabled, exactly
\* one request, for that value, options untouched); an empty parent value
\* gives no request and a disabled selector.
C10_PageLoad ==
    [][(scriptEnabled /\ ~ready /\ ready' /\ numeralPresent /\ carpetaPresent)
         => IF numeralVal # ""
            THEN /\ ~disabled'
                 /\ issued' = 1
                 /\ \E r \in inflight' :
                        inflight' = {r} /\ r.numeral_id = numeralVal
                 /\ options' = options
            ELSE /\ disabled'
                 /\ issued' = 0
                 /\ inflight' = {}]_vars

\* C10 witness: the page has loaded in edit mode and the one request is in
\* flight.
C10_Witness ==
    /\ last.op = "ready"
    /\ numeralPresent /\ carpetaPresent
    /\ numeralVal = "5"
    /\ Cardinality(inflight) = 1
    /\ ~disabled

\* a step in which a success or an error callback runs: a request leaves
\* the set in flight
ResponseHandled == inflight' # inflight /\ last'.op \in {"success", "error"}

\* C11: handling a fetch success or a fetch failure never changes the
\* enabled flag of the dependent selector; a response that arrives while the
\* selector is disabled leaves it disabled.
C11_ResponsesKeepEnabledFlag ==
    [][ResponseHandled => disabled' = disabled]_vars

\* C11 witness: a success has been handled with records while the selector
\* was, and stays, disabled.
C11_Witness ==
    /\ last.op = "success"
    /\ Len(last.carpetas) = 2
    /\ disabled
    /\ inflight # {}

\* a step in which a trigger (page load or change event) is handled with a
\* non-empty parent value
TriggerNonEmpty ==
    \/ /\ scriptEnabled /\ ~ready /\ ready'
       /\ numeralPresent /\ carpetaPresent /\ numeralVal # ""
    \/ ChangeHandled /\ numeralVal' # ""

\* C12: no retry: handling a failure issues no request, and the number of
\* requests issued grows by exactly one at every handled trigger with a
\* non-empty parent value and at no other step, so that it equals the number
\* of such triggers over any run (it is 0 initially).
C12_NoRetry ==
    [][/\ (last'.op = "error" /\ inflight' # inflight)
            => (issued' = issued /\ inflight' \subseteq inflight)
       /\ issued' = issued + (IF TriggerNonEmpty THEN 1 ELSE 0)]_vars

\* C12 witness: two requests were issued and both have failed; nothing is
\* in flight.
C12_Witness ==
    /\ last.op = "error"
    /\ issued = 2
    /\ console = 2
    /\ inflight = {}

\* a step in which the success callback of a request for the value v runs
SuccessHandledFor(v) ==
    inflight' # inflight /\ last'.op = "success" /\ last'.numeral_id = v

\* C13: idempotence, with stable server data: when the options shown were
\* fetched for the value v and a further fetch for v succeeds (v selected
\* again, nothing else written in between), the option list is the same
\* after it as before; and when the two responses for v are handled one
\* right after the other, the selected value is the same too.
C13_Idempotent ==
    [][\A v \in NumeralValues :
          (SuccessHandledFor(v) /\ fetchedFor = v)
             => /\ options' = options
                /\ (last.op = "success" => selectedIndex' = selectedIndex)]_vars

\* C13 witness: "5" was selected twice (the only two requests are for "5")
\* and both fetches have succeeded, the later one first.
C13_Witness ==
    /\ Initialised
    /\ numeralVal = "5"
    /\ issued = 2
    /\ inflight = {}
    /\ console = 0
    /\ last.op = "success"
    /\ last.id = 1
    /\ last.numeral_id = "5"
    /\ Len(options) = 3

\* the placeholder is the first option and no other option has the empty
\* value
PlaceholderFirstOnce(opts) ==
    /\ Len(opts) >= 1
    /\ opts[1] = Placeholder
    /\ \A i \in 2..Len(opts) : opts[i].value # ""

\* a step of the controller that writes the option list: a handled change
\* to the empty value, or a success callback
OptionsWritten ==
    \/ ChangeHandled /\ numeralVal' = ""
    \/ inflight' # inflight /\ last'.op = "success"

\* C14: every step of the controller that writes the option list leaves the
\* placeholder as the first option, occurring exactly once, and no later
\* step undoes that: once true it stays true in every later state.
C14_PlaceholderFirst ==
    [][(OptionsWritten \/ PlaceholderFirstOnce(options))
          => PlaceholderFirstOnce(options')]_vars

\* C14 witness: a response with two records has filled the control and the
\* user has since picked the last option: the placeholder is first and
\* occurs once.
C14_Witness ==
    /\ last.op = "select"
    /\ fetchedFor # NotFetched
    /\ Len(options) = 3
    /\ PlaceholderFirstOnce(options)
    /\ selectedIndex = 3

\* every request issued has been answered, and the answer handled last has
\* just been handled
AllResolved == inflight = {} /\ last.op \in {"success", "error"}

\* C15 (as stated): once all the fetches have resolved, the option list is
\* the placeholder followed by the records of the successful response that
\* arrived last, whatever the order of the requests and the parent value.
C15_LastResponseWins ==
    (AllResolved /\ lastSuccess # NoResponse)
        => options = Repopulated(lastSuccess)

\* C15 (amended): once all the fetches have resolved, the option list is the
\* placeholder followed by the records of the successful response that
\* arrived last, unless a change to the empty value was handled after that
\* response: then it is the placeholder alone.
C15_LastWriteWins ==
    (AllResolved /\ lastSuccess # NoResponse)
        => options = IF fetchedFor # NotFetched
                     THEN Repopulated(lastSuccess)
                     ELSE <<Placeholder>>

\* C15 witness: two fetches overlapped, the response of the older request
\* arrived last with two records, and the parent holds the value of the
\* later request.
C15_Witness ==
    /\ AllResolved
    /\ issued = 2
    /\ console = 0
    /\ last.op = "success"
    /\ last.id = 1
    /\ numeralVal # ""
    /\ numeralVal # last.numeral_id
    /\ Len(lastSuccess) = 2
    /\ options = Repopulated(lastSuccess)

\* C16: with stable server data, once the parent rests at a non-empty value
\* v and every fetch issued has resolved successfully, the option list is
\* the placeholder followed by the server's records for v.  (A state with
\* nothing in flight changes only through a further event on the page: if
\* the parent stops changing there, the option list stays what it is.)
C16_SynchronisedWhenSettled ==
    (Initialised /\ numeralVal # "" /\ inflight = {} /\ console = 0)
        => options = Repopulated(ServerData(numeralVal, AppOf(pathname)))

\* C17: handling a fetch failure leaves the option list, the selected option,
\* the enabled flag and the recorded data-selected value as they were; its
\* one effect is the report on the console.
C17_ErrorChangesNothing ==
    [][(inflight' # inflight /\ last'.op = "error")
          => /\ options' = options
             /\ selectedIndex' = selectedIndex
             /\ disabled' = disabled
             /\ dataSelected' = dataSelected
             /\ numeralVal' = numeralVal
             /\ console' = console + 1]_vars

\* C17 witness: a failure has been handled while the control showed fetched
\* records with the second option selected; they are still there.
C17_Witness ==
    /\ last.op = "error"
    /\ fetchedFor # NotFetched
    /\ Len(options) = 3
    /\ selectedIndex = 2
    /\ console = 1

\* a handled change to a non-empty value keeps the option list and the
\* selected option, and leaves the selector enabled
NonEmptyChangeKeepsOptions ==
    (ChangeHandled /\ numeralVal' # "")
        => (options' = options /\ selectedIndex' = selectedIndex /\ ~disabled')

\* the step of the change handler with a non-empty value leaves the option
\* list and the selection as they were and the selector enabled
ChangeStepKeepsOptions == [][NonEmptyChangeKeepsOptions]_vars

\* C18: while the request sent by a handled change to a non-empty value is
\* in flight and the selector is enabled, the options shown are exactly
\* those present before that change.  Stated for the latest such change:
\* no other change has been handled since (a change to the empty value
\* disables the selector, a change to a non-empty value sends a newer
\* request), so only a response handler can have run in between.
C18_OptionsKeptUntilOwnResponse ==
    (/\ Initialised
     /\ shownBefore.id # 0
     /\ shownBefore.id = issued
     /\ \E r \in inflight : r.id = shownBefore.id
     /\ ~disabled)
        => options = shownBefore.options

\* C19: no step writes data-selected, so the value recorded when the page
\* was rendered is re-selected by every success callback whose records
\* contain it, at the first fetch and at every later one, whatever the user
\* has chosen since.
C19_RecordedNeverWritten ==
    [][/\ dataSelected' = dataSelected
       /\ (/\ inflight' # inflight
           /\ last'.op = "success"
           /\ dataSelected \notin {"", Undefined}
           /\ \E i \in 1..Len(last'.carpetas) :
                 NumberToString(last'.carpetas[i].id) = dataSelected)
             => (/\ selectedIndex' \in 1..Len(options')
                 /\ options'[selectedIndex'].value = dataSelected)]_vars

\* C19 witness: the recorded value is "1"; after the parent was changed to
\* "7", the response of the second request has re-selected option "1".
C19_Witness ==
    /\ dataSelected = "1"
    /\ last.op = "success"
    /\ last.id = 2
    /\ last.numeral_id = "7"
    /\ numeralVal = "7"
    /\ selectedIndex = 3
    /\ options[3].value = "1"

\* C20: when the parent control or the dependent control is absent from the
\* page, no step binds the change handler, issues a request, or changes the
\* enabled flag or the options: the page load does nothing and no later
\* event reaches the controller.
C20_InertWithoutControls ==
    [][~(numeralPresent /\ carpetaPresent)
          => /\ ~HandlerBound'
             /\ issued' = issued
             /\ inflight' = inflight
             /\ disabled' = disabled
             /\ options' = options
             /\ console' = console]_vars

\* C20 witness: the page has no parent control; after the page load the user
\* has picked an option of the dependent control, which is still enabled,
\* and no request was ever issued.
C20_Witness ==
    /\ scriptEnabled
    /\ ~numeralPresent
    /\ carpetaPresent
    /\ ready
    /\ last.op = "select"
    /\ ~disabled
    /\ issued = 0
    /\ inflight = {}

====
